---- MODULE Spec2Model ----
(***************************************************************************)
(* Model of the image filters of src/main.cpp: the fixed 3x3 convolution,  *)
(* the separable box blur, the difference of gaussians and the Kuwahara    *)
(* filter.                                                                 *)
(*                                                                         *)
(* A channel is a C++ `float`.  It is modelled as an IEEE-754 binary32     *)
(* value <<s, m, e>> of value s * m * 2^e with s in {-1, 1} and            *)
(* 2^23 <= m < 2^24, or as Zero; every arithmetic operator rounds to       *)
(* nearest, ties to even, as the hardware does.  Infinities, NaN and       *)
(* subnormals are outside the model: the inputs are channel values of      *)
(* decoded 8-bit images and no operation on them leaves the normal range.  *)
(* A pixel (glm::vec3) is a triple of channels; an image (sil::Image) is a *)
(* record of its width, its height and its row-major pixel sequence.       *)
(***************************************************************************)
EXTENDS Integers, Sequences, FiniteSets, TLC

----------------------------------------------------------------------------
(* binary32 arithmetic *)

Zero == <<0, 0, 0>>

MantBits == 24

\* the number of bits of M >= 0
RECURSIVE BitLen(_)
BitLen(M) ==
    IF M >= 16777216 THEN 24 + BitLen(M \div 16777216)
    ELSE IF M >= 4096 THEN 12 + BitLen(M \div 4096)
    ELSE IF M >= 64 THEN 6 + BitLen(M \div 64)
    ELSE IF M >= 8 THEN 3 + BitLen(M \div 8)
    ELSE IF M >= 4 THEN 3
    ELSE IF M >= 2 THEN 2
    ELSE M

\* q + r / (2 * half) rounded to the nearest integer, ties to even
NearestEven(q, r, half) ==
    IF r > half \/ (r = half /\ q % 2 = 1) THEN q + 1 ELSE q

\* the mantissa m of exponent e, renormalised when rounding carried it to 2^24
Carry(s, m, e) ==
    IF m = 2^MantBits THEN <<s, 2^(MantBits - 1), e + 1>> ELSE <<s, m, e>>

\* s * M * 2^e for M of n bits, rounded to 24 significant bits
RoundBits(s, M, e, n) ==
    IF n <= MantBits THEN <<s, M * 2^(MantBits - n), e - (MantBits - n)>>
    ELSE Carry(s,
               NearestEven(M \div 2^(n - MantBits), M % 2^(n - MantBits),
                           2^(n - MantBits - 1)),
               e + (n - MantBits))

\* s * M * 2^e rounded to 24 significant bits, ties to even.  When M stands
\* for an inexact value its lowest bit is a sticky bit and M has at least two
\* bits more than the mantissa.
RoundPack(s, M, e) == IF M = 0 THEN Zero ELSE RoundBits(s, M, e, BitLen(M))

\* static_cast<float>(n) of an int n with |n| < 2^30
IntToFloat(n) == IF n < 0 THEN RoundPack(-1, -n, 0) ELSE RoundPack(1, n, 0)

\* M with its lowest bit set when bits were lost below it
Jam(M, lost) == IF lost /\ M % 2 = 0 THEN M + 1 ELSE M

FNeg(a) == <<-a[1], a[2], a[3]>>

\* |a| >= |b| for two non-zero values
MagGeq(a, b) == a[3] > b[3] \/ (a[3] = b[3] /\ a[2] >= b[2])

\* a + b for |a| >= |b|, both non-zero: b is aligned on a with three more
\* bits, the last of them sticky
FAddOrdered(a, b) ==
    RoundPack(a[1],
              a[2] * 8
                + (IF a[1] = b[1] THEN 1 ELSE -1)
                  * (IF a[3] - b[3] >= MantBits + 3 THEN 1
                     ELSE Jam((b[2] * 8) \div 2^(a[3] - b[3]),
                              (b[2] * 8) % 2^(a[3] - b[3]) # 0)),
              a[3] - 3)

\* float operator+
FAdd(a, b) ==
    IF a[1] = 0 THEN b
    ELSE IF b[1] = 0 THEN a
    ELSE FAddOrdered(IF MagGeq(a, b) THEN a ELSE b, IF MagGeq(a, b) THEN b ELSE a)

\* float operator-
FSub(a, b) == FAdd(a, FNeg(b))

\* float operator*
FMul(a, b) ==
    IF a[1] = 0 \/ b[1] = 0 THEN Zero
    ELSE LET ah == a[2] \div 4096
             al == a[2] % 4096
             bh == b[2] \div 4096
             bl == b[2] % 4096
             cross == ah * bl + al * bh
             lowsum == (cross % 4096) * 4096 + al * bl
             hi == ah * bh + cross \div 4096 + lowsum \div 2^24
             low == lowsum % 2^24
         IN RoundPack(a[1] * b[1],
                      Jam(hi * 8 + low \div 2^21, low % 2^21 # 0),
                      a[3] + b[3] + 21)

\* float operator/ (b # 0)
FDiv(a, b) ==
    IF a[1] = 0 THEN Zero
    ELSE LET q0 == a[2] \div b[2]
             r0 == a[2] % b[2]
             q1 == (r0 * 128) \div b[2]
             r1 == (r0 * 128) % b[2]
             q2 == (r1 * 128) \div b[2]
             r2 == (r1 * 128) % b[2]
             q3 == (r2 * 128) \div b[2]
             r3 == (r2 * 128) % b[2]
             q4 == (r3 * 128) \div b[2]
             r4 == (r3 * 128) % b[2]
             Q == (((q0 * 128 + q1) * 128 + q2) * 128 + q3) * 128 + q4
         IN RoundPack(a[1] * b[1], Jam(Q, r4 # 0), a[3] - b[3] - 28)

\* float operator<
FLess(a, b) ==
    IF a[1] # b[1] THEN a[1] < b[1]
    ELSE IF a[1] = 0 THEN FALSE
    ELSE IF a[1] = 1 THEN ~MagGeq(a, b)
    ELSE ~MagGeq(b, a)

\* std::clamp(v, lo, hi) on floats
FClamp(v, lo, hi) == IF FLess(v, lo) THEN lo ELSE IF FLess(hi, v) THEN hi ELSE v

----------------------------------------------------------------------------
(* glm::vec3 and sil::Image *)

One == IntToFloat(1)

\* glm::vec3{c}: the three channels set to c
Vec3(c) == <<c, c, c>>

VAdd(a, b) == <<FAdd(a[1], b[1]), FAdd(a[2], b[2]), FAdd(a[3], b[3])>>

VSub(a, b) == <<FSub(a[1], b[1]), FSub(a[2], b[2]), FSub(a[3], b[3])>>

\* vec3 * float
VMul(a, s) == <<FMul(a[1], s), FMul(a[2], s), FMul(a[3], s)>>

\* vec3 / float
VDiv(a, s) == <<FDiv(a[1], s), FDiv(a[2], s), FDiv(a[3], s)>>

\* img.pixel(x, y): the pixels are stored row by row
pixel(img, x, y) == img.pixels[y * img.width + x + 1]

\* img.pixel(x, y) = c
SetPixel(img, x, y, c) == [img EXCEPT !.pixels[y * img.width + x + 1] = c]

\* sil::Image{w, h}: a black image
BlankImage(w, h) ==
    [width |-> w, height |-> h, pixels |-> [i \in 1..(w * h) |-> Vec3(Zero)]]

\* std::clamp(v, lo, hi) on ints
IClamp(v, lo, hi) == IF v < lo THEN lo ELSE IF hi < v THEN hi ELSE v

----------------------------------------------------------------------------
(* blur_convolution: the separable box blur *)

\* the loop for (i = ...; i < end; ++i) sum += img.pixel(clamp(i, 0, w-1), y)
\* run from the state st = [i, sum] until i = end.  The samples are added
\* one by one in the order of i; the range is halved only to bound the depth
\* of the evaluation.
RECURSIVE RowSumLoop(_, _, _, _)
RowSumLoop(img, y, st, end) ==
    IF st.i >= end THEN st
    ELSE IF st.i + 1 = end
         THEN [i |-> end,
               sum |-> VAdd(st.sum, pixel(img, IClamp(st.i, 0, img.width - 1), y))]
    ELSE RowSumLoop(img, y, RowSumLoop(img, y, st, st.i + (end - st.i) \div 2), end)

\* the first window of row y
FirstSumH(img, y, i, end, sum) == RowSumLoop(img, y, [i |-> i, sum |-> sum], end).sum

\* the pixels x .. w-1 of row y of temp, sum being the running sum at x-1
RECURSIVE SlideH(_, _, _, _, _)
SlideH(img, size, y, x, sum) ==
    IF x >= img.width THEN <<>>
    ELSE LET half == size \div 2
             removeX == IClamp(x - half - 1, 0, img.width - 1)
             addX == IClamp(x - half + size - 1, 0, img.width - 1)
             next == VAdd(VSub(sum, pixel(img, removeX, y)), pixel(img, addX, y))
         IN <<VDiv(next, IntToFloat(size))>> \o SlideH(img, size, y, x + 1, next)

\* the rows y .. h-1 of temp, row after row
RECURSIVE HorizontalPass(_, _, _)
HorizontalPass(img, size, y) ==
    IF y >= img.height THEN <<>>
    ELSE LET half == size \div 2
             sum == FirstSumH(img, y, -half, -half + size, Vec3(Zero))
         IN <<VDiv(sum, IntToFloat(size))>> \o SlideH(img, size, y, 1, sum)
            \o HorizontalPass(img, size, y + 1)

\* the loop for (j = ...; j < end; ++j) sum += temp.pixel(x, clamp(j, 0, h-1))
\* run from the state st = [j, sum] until j = end
RECURSIVE ColumnSumLoop(_, _, _, _)
ColumnSumLoop(temp, x, st, end) ==
    IF st.j >= end THEN st
    ELSE IF st.j + 1 = end
         THEN [j |-> end,
               sum |-> VAdd(st.sum, pixel(temp, x, IClamp(st.j, 0, temp.height - 1)))]
    ELSE ColumnSumLoop(temp, x, ColumnSumLoop(temp, x, st, st.j + (end - st.j) \div 2), end)

\* the first window of column x
FirstSumV(temp, x, j, end, sum) == ColumnSumLoop(temp, x, [j |-> j, sum |-> sum], end).sum

\* the pixels y .. h-1 of column x of out, sum being the running sum at y-1
RECURSIVE SlideV(_, _, _, _, _)
SlideV(temp, size, x, y, sum) ==
    IF y >= temp.height THEN <<>>
    ELSE LET half == size \div 2
             removeY == IClamp(y - half - 1, 0, temp.height - 1)
             addY == IClamp(y - half + size - 1, 0, temp.height - 1)
             next == VAdd(VSub(sum, pixel(temp, x, removeY)), pixel(temp, x, addY))
         IN <<VDiv(next, IntToFloat(size))>> \o SlideV(temp, size, x, y + 1, next)

\* the columns x .. w-1 of out, one sequence (top to bottom) per column
RECURSIVE VerticalPass(_, _, _)
VerticalPass(temp, size, x) ==
    IF x >= temp.width THEN <<>>
    ELSE LET half == size \div 2
             sum == FirstSumV(temp, x, -half, -half + size, Vec3(Zero))
         IN << <<VDiv(sum, IntToFloat(size))>> \o SlideV(temp, size, x, 1, sum) >>
            \o VerticalPass(temp, size, x + 1)

\* the pixels i .. w*h of the image whose columns are cols
RECURSIVE FromColumns(_, _, _, _)
FromColumns(cols, w, h, i) ==
    IF i > w * h THEN <<>>
    ELSE <<cols[((i - 1) % w) + 1][((i - 1) \div w) + 1]>>
         \o FromColumns(cols, w, h, i + 1)

\* the early return of a call that must not change the image
\* (mutant: the image is replaced by the freshly allocated one)
blur_noop_blank(img) == BlankImage(img.width, img.height)

blur_noop(img) == img

blur_convolution(img, size) ==
    IF size <= 1 THEN blur_noop(img)
    ELSE LET w == img.width
             h == img.height
             temp == [width |-> w, height |-> h,
                      pixels |-> HorizontalPass(img, size, 0)]
             cols == VerticalPass(temp, size, 0)
         IN [width |-> w, height |-> h, pixels |-> FromColumns(cols, w, h, 1)]

----------------------------------------------------------------------------
(* the input images *)

MaxWidth == 4

MaxHeight == 4

MaxSize == 4

\* a channel of a decoded 8-bit image
FromByte(v) == FDiv(IntToFloat(v), IntToFloat(255))

Colour(r, g, b) == <<FromByte(r), FromByte(g), FromByte(b)>>

Black == Colour(0, 0, 0)

White == Colour(255, 255, 255)

Grey == Colour(173, 173, 173)

\* a colour of the same luminance as Grey
Teal == Colour(5, 251, 212)

\* the w x h image of colour bg, but for the pixel of index spot (0: none),
\* which is of colour fg
Spotted(w, h, bg, fg, spot) ==
    [width |-> w, height |-> h,
     pixels |-> [i \in 1..(w * h) |-> IF i = spot THEN fg ELSE bg]]

\* the images of at most maxW x maxH pixels over the colours of palette that
\* are of one colour but for at most one pixel
Images(maxW, maxH, palette) ==
    UNION {UNION {UNION {{Spotted(w, h, bg, fg, spot) : spot \in 1..(w * h)}
                         : fg \in palette \ {bg}}
                  \cup {Spotted(w, h, bg, bg, 0)}
                  : bg \in palette}
           : <<w, h>> \in (1..maxW) \X (1..maxH)}

IsConstant(image) == \A i, j \in 1..Len(image.pixels) : image.pixels[i] = image.pixels[j]

----------------------------------------------------------------------------
(* the state: the caller's image, the image before the call, the call, the *)
(* locals of a function that is followed step by step, and what the        *)
(* program has written outside the image                                   *)

VARIABLES img, original, call, frame, output

vars == <<img, original, call, frame, output>>

NoCall == [op |-> "none", arg |-> 0]

\* no function is followed step by step
NoFrame == [pc |-> "none"]

\* no file
NoFile == <<"no file">>

\* nothing written yet: no CSV file, no saved frame, empty std::cerr and std::cout
NoOutput == [csv |-> NoFile, saved |-> {}, cerr |-> <<>>, cout |-> <<>>]

InitWith(inputs) ==
    /\ img \in inputs
    /\ original = img
    /\ call = NoCall
    /\ frame = NoFrame
    /\ output = NoOutput

Call(op, arg, result) ==
    /\ call = NoCall
    /\ img' = result
    /\ original' = img
    /\ call' = [op |-> op, arg |-> arg]
    /\ UNCHANGED <<frame, output>>

BlurInputs == Images(MaxWidth, MaxHeight, {Black, White, Grey})

Sizes == (-1)..MaxSize

BlurConvolution == \E size \in Sizes : Call("blur_convolution", size, blur_convolution(img, size))

InitBlur == InitWith(BlurInputs)

NextBlur == BlurConvolution

SpecBlur == InitBlur /\ [][NextBlur]_vars

----------------------------------------------------------------------------
(* the claims about blur_convolution *)

BlurCalled == call.op = "blur_convolution"

\* a channel v >= 0 that is a multiple of 2^-24, in units of 2^-24
ExactUnits(v) == IF v = Zero THEN 0 ELSE v[2] * 2^(v[3] + 24)

\* the float nearest to (q + r / n) * 2^e, for 0 <= r < n
RECURSIVE NearestFloat(_, _, _, _)
NearestFloat(q, r, n, e) ==
    IF q >= 2^26 \/ r = 0 THEN RoundPack(1, Jam(q, r # 0), e)
    ELSE NearestFloat(2 * q + (2 * r) \div n, (2 * r) % n, n, e - 1)

\* the sum, in units of 2^-24, of channel c over the k x k window of (x, y),
\* offsets -floor(k/2) .. -floor(k/2)+k-1, coordinates clamped to the image
RECURSIVE WindowUnits(_, _, _, _, _, _)
WindowUnits(image, k, x, y, c, n) ==
    IF n >= k * k THEN 0
    ELSE LET i == (n % k) - (k \div 2)
             j == (n \div k) - (k \div 2)
             sx == IClamp(x + i, 0, image.width - 1)
             sy == IClamp(y + j, 0, image.height - 1)
         IN ExactUnits(pixel(image, sx, sy)[c]) + WindowUnits(image, k, x, y, c, n + 1)

\* the mean of the edge-clamped k x k window of (x, y), computed exactly and
\* rounded once to the nearest float
WindowMean(image, k, x, y) ==
    [c \in 1..3 |-> LET sum == WindowUnits(image, k, x, y, c, 0)
                    IN NearestFloat(sum \div (k * k), sum % (k * k), k * k, -24)]

SameSize(a, b) == a.width = b.width /\ a.height = b.height

\* C1: after blur_convolution(img, k) with k >= 2 the image has the same
\* dimensions and every pixel is the mean of its edge-clamped k x k window of
\* the source
C1_BlurIsWindowMean ==
    (BlurCalled /\ call.arg >= 2) =>
        /\ SameSize(img, original)
        /\ \A x \in 0..(img.width - 1), y \in 0..(img.height - 1) :
              pixel(img, x, y) = WindowMean(original, call.arg, x, y)

\* the example of C1: a 4x4 black image with one white pixel at (1,1), blurred
\* with k = 3, has pixel (0,0) at one ninth of white
C1_Example ==
    (BlurCalled /\ call.arg = 3 /\ original = Spotted(4, 4, Black, White, 6)) =>
        pixel(img, 0, 0) = Vec3(FDiv(One, IntToFloat(9)))

\* the window of C1 where no operation rounds: a black and white image and a
\* size that is a power of two
C1_ExactWithoutRounding ==
    (/\ BlurCalled
     /\ call.arg \in {2, 4}
     /\ \A i \in 1..Len(original.pixels) : original.pixels[i] \in {Black, White})
    => \A x \in 0..(img.width - 1), y \in 0..(img.height - 1) :
          pixel(img, x, y) = WindowMean(original, call.arg, x, y)

\* C6: blur_convolution(img, k) with k <= 1 leaves the image as it was
C6_SmallSizeIsNoOp == (BlurCalled /\ call.arg <= 1) => img = original

C6_Witness ==
    BlurCalled /\ call.arg <= 0 /\ ~IsConstant(original) /\ img = original

\* C7: blur_convolution with k >= 2 leaves an image of one colour as it was
C7_BlurKeepsConstant ==
    (BlurCalled /\ call.arg >= 2 /\ IsConstant(original)) => img = original

----------------------------------------------------------------------------
(* convolution: the fixed 3x3 kernels *)

Kernel == {"Identity", "Blur", "Sharpen", "EdgeDetection", "BoxBlur"}

FixedKernels == Kernel \ {"BoxBlur"}

\* the float 2^e
Pow2Float(e) == <<1, 2^23, e - 23>>

\* the identity kernel with its 1 off the centre (mutant: a slip of index)
getKernel_offcentre(type) ==
    LET z == Zero
        o == One
    IN IF type = "Identity" THEN << <<z, z, z>>, <<z, z, o>>, <<z, z, z>> >>
       ELSE << <<z, z, z>>, <<z, z, z>>, <<z, z, z>> >>

getKernel(type) ==
    LET z == Zero
        o == One
        m == IntToFloat(-1)
        s == Pow2Float(-4)
        e == Pow2Float(-3)
        q == Pow2Float(-2)
    IN CASE type = "Identity" -> << <<z, z, z>>, <<z, o, z>>, <<z, z, z>> >>
         [] type = "Blur" -> << <<s, e, s>>, <<e, q, e>>, <<s, e, s>> >>
         [] type = "Sharpen" ->
                << <<z, m, z>>, <<m, IntToFloat(5), m>>, <<z, m, z>> >>
         [] type = "EdgeDetection" ->
                << <<m, m, m>>, <<m, IntToFloat(8), m>>, <<m, m, m>> >>
         [] OTHER -> <<>>

\* the two inner loops: newColor += original.pixel(x + kx, y + ky) * k[ky + 1][kx + 1]
RECURSIVE NewColor(_, _, _, _, _, _)
NewColor(source, k, x, y, n, newColor) ==
    IF n >= 9 THEN newColor
    ELSE LET ky == (n \div 3) - 1
             kx == (n % 3) - 1
             neighborColor == pixel(source, x + kx, y + ky)
         IN NewColor(source, k, x, y, n + 1,
                     VAdd(newColor, VMul(neighborColor, k[ky + 2][kx + 2])))

\* the two outer loops, from (x, y) on: the interior pixels of image are
\* rewritten one by one from the pixels of source
RECURSIVE ConvolveFrom(_, _, _, _, _)
ConvolveFrom(image, source, k, x, y) ==
    IF y >= image.height - 1 THEN image
    ELSE IF x >= image.width - 1 THEN ConvolveFrom(image, source, k, 1, y + 1)
    ELSE ConvolveFrom(SetPixel(image, x, y, NewColor(source, k, x, y, 0, Vec3(Zero))),
                      source, k, x + 1, y)

\* the same loops reading the image they write (mutant: no copy of the image)
RECURSIVE ConvolveInPlaceFrom(_, _, _, _)
ConvolveInPlaceFrom(image, k, x, y) ==
    IF y >= image.height - 1 THEN image
    ELSE IF x >= image.width - 1 THEN ConvolveInPlaceFrom(image, k, 1, y + 1)
    ELSE ConvolveInPlaceFrom(SetPixel(image, x, y, NewColor(image, k, x, y, 0, Vec3(Zero))),
                             k, x + 1, y)

DefaultSize == 100

convolution_aliased(image, kernel) ==
    IF kernel = "BoxBlur" THEN blur_convolution(image, DefaultSize)
    ELSE ConvolveInPlaceFrom(image, getKernel(kernel), 1, 1)

\* the result is built in a fresh image (mutant: the border is not copied)
convolution_fresh(image, kernel) ==
    IF kernel = "BoxBlur" THEN blur_convolution(image, DefaultSize)
    ELSE ConvolveFrom(BlankImage(image.width, image.height), image,
                      getKernel(kernel), 1, 1)

convolution(image, kernel) ==
    IF kernel = "BoxBlur" THEN blur_convolution(image, DefaultSize)
    ELSE ConvolveFrom(image, image, getKernel(kernel), 1, 1)

ConvolutionInputs == Images(MaxWidth, MaxHeight, {Black, White, Grey})

Convolution == \E kernel \in Kernel : Call("convolution", kernel, convolution(img, kernel))

InitConvolution == InitWith(ConvolutionInputs)

NextConvolution == Convolution

SpecConvolution == InitConvolution /\ [][NextConvolution]_vars

----------------------------------------------------------------------------
(* the claims about convolution *)

ConvolutionCalled == call.op = "convolution"

Interior(image) ==
    {p \in (0..(image.width - 1)) \X (0..(image.height - 1)) :
        /\ 1 <= p[1] /\ p[1] <= image.width - 2
        /\ 1 <= p[2] /\ p[2] <= image.height - 2}

Border(image) == ((0..(image.width - 1)) \X (0..(image.height - 1))) \ Interior(image)

\* the weight k[ky+1][kx+1] times the pixel (x+kx, y+ky) of image
Term(image, k, x, y, kx, ky) == VMul(pixel(image, x + kx, y + ky), k[ky + 2][kx + 2])

\* the sum over kx, ky in {-1, 0, 1} of the weighted neighbours, row after row
WeightedSum(image, k, x, y) ==
    VAdd(VAdd(VAdd(VAdd(VAdd(VAdd(VAdd(VAdd(
        Term(image, k, x, y, -1, -1), Term(image, k, x, y, 0, -1)),
        Term(image, k, x, y, 1, -1)), Term(image, k, x, y, -1, 0)),
        Term(image, k, x, y, 0, 0)), Term(image, k, x, y, 1, 0)),
        Term(image, k, x, y, -1, 1)), Term(image, k, x, y, 0, 1)),
        Term(image, k, x, y, 1, 1))

\* C2: after convolution with one of the four fixed kernels every interior
\* pixel is the weighted sum of its 3x3 neighbourhood in the image as it was
\* before the call
C2_InteriorFromOriginal ==
    (ConvolutionCalled /\ call.arg \in FixedKernels) =>
        \A p \in Interior(original) :
            pixel(img, p[1], p[2]) = WeightedSum(original, getKernel(call.arg), p[1], p[2])

\* two interior pixels side by side, the first of them changed by the call
C2_Witness ==
    /\ ConvolutionCalled
    /\ call.arg \in {"Blur", "Sharpen", "EdgeDetection"}
    /\ original.width >= 4 /\ original.height >= 3
    /\ pixel(img, 1, 1) # pixel(original, 1, 1)
    /\ pixel(img, 2, 1) = WeightedSum(original, getKernel(call.arg), 2, 1)
    /\ pixel(img, 2, 1) # WeightedSum(img, getKernel(call.arg), 2, 1)

\* C3 as stated: convolution with any kernel of the enum leaves the border
\* pixels as they were
C3_BorderKeptAllKernels ==
    ConvolutionCalled =>
        \A p \in Border(original) : pixel(img, p[1], p[2]) = pixel(original, p[1], p[2])

\* C3 amended: convolution with one of the four fixed kernels leaves the
\* border pixels as they were
C3_BorderKeptFixedKernels ==
    (ConvolutionCalled /\ call.arg \in FixedKernels) =>
        \A p \in Border(original) : pixel(img, p[1], p[2]) = pixel(original, p[1], p[2])

\* a fixed kernel has changed an interior pixel of an image whose border is
\* not black
C3_Witness ==
    /\ ConvolutionCalled
    /\ call.arg \in FixedKernels
    /\ \E p \in Interior(original) : pixel(img, p[1], p[2]) # pixel(original, p[1], p[2])
    /\ \E p \in Border(original) : pixel(original, p[1], p[2]) # Black
    /\ \A p \in Border(original) : pixel(img, p[1], p[2]) = pixel(original, p[1], p[2])

\* C8: convolution with the identity kernel leaves every pixel as it was,
\* whatever the size of the image
C8_IdentityKeepsImage ==
    (ConvolutionCalled /\ call.arg = "Identity") => img = original

\* the identity kernel applied to an image with an interior whose centre
\* differs from its neighbours, and to an image too narrow to have one
C8_Witness ==
    /\ ConvolutionCalled
    /\ call.arg = "Identity"
    /\ img = original
    /\ \E p \in Interior(original) :
          pixel(original, p[1], p[2]) # pixel(original, p[1] + 1, p[2])

C8_WitnessNarrow ==
    /\ ConvolutionCalled
    /\ call.arg = "Identity"
    /\ img = original
    /\ original.width < 3
    /\ ~IsConstant(original)

----------------------------------------------------------------------------
(* gaussienne_difference: the difference of two box blurs *)

\* the float literal n/d, as the compiler rounds it
Literal(n, d) == FDiv(IntToFloat(n), IntToFloat(d))

\* 0.03f
Threshold == Literal(3, 100)

SmallSize == 1

LargeSize == 3

\* the clamp alone (mutant: the difference is not snapped to 1)
Edge_clamped(c1, c2) == FClamp(FSub(c1, c2), Zero, One)

\* std::clamp(c1 - c2 > 0.03f ? 1.f : c1 - c2, 0.f, 1.f)
Edge(c1, c2) ==
    FClamp(IF FLess(Threshold, FSub(c1, c2)) THEN One ELSE FSub(c1, c2), Zero, One)

\* the pixels i .. w*h written by the two loops, each from the pixel of the
\* same place of the two blurred copies
RECURSIVE DifferenceFrom(_, _, _)
DifferenceFrom(blurred1, blurred2, i) ==
    IF i > Len(blurred1.pixels) THEN <<>>
    ELSE LET c1 == blurred1.pixels[i]
             c2 == blurred2.pixels[i]
         IN << <<Edge(c1[1], c2[1]), Edge(c1[2], c2[2]), Edge(c1[3], c2[3])>> >>
            \o DifferenceFrom(blurred1, blurred2, i + 1)

gaussienne_difference(image) ==
    LET blurred1 == blur_convolution(image, SmallSize)
        blurred2 == blur_convolution(image, LargeSize)
    IN [image EXCEPT !.pixels = DifferenceFrom(blurred1, blurred2, 1)]

DifferenceInputs == Images(MaxWidth, MaxHeight, {Black, White, Grey})

GaussienneDifference == Call("gaussienne_difference", 0, gaussienne_difference(img))

InitDifference == InitWith(DifferenceInputs)

NextDifference == GaussienneDifference

SpecDifference == InitDifference /\ [][NextDifference]_vars

----------------------------------------------------------------------------
(* the claims about gaussienne_difference *)

DifferenceCalled == call.op = "gaussienne_difference"

\* the value C4 gives for the difference d
Snapped(d) == IF FLess(Threshold, d) THEN One ELSE IF FLess(d, Zero) THEN Zero ELSE d

\* the differences d of C4, pixel by pixel and channel by channel: the source
\* blurred with the smaller size minus the source blurred with the larger one
Differences(source) ==
    LET small == blur_convolution(source, SmallSize)
        large == blur_convolution(source, LargeSize)
    IN [i \in 1..Len(source.pixels) |->
           [c \in 1..3 |-> FSub(small.pixels[i][c], large.pixels[i][c])]]

\* C4: gaussienne_difference writes 1 where d > 0.03, d where 0 <= d <= 0.03
\* and 0 where d < 0, d being the difference of the two blurs of the source
C4_DifferenceRule ==
    DifferenceCalled =>
        LET d == Differences(original)
        IN /\ SameSize(img, original)
           /\ \A i \in 1..Len(original.pixels), c \in 1..3 :
                 img.pixels[i][c] = Snapped(d[i][c])

\* an image where the three cases of C4 happen
C4_Witness ==
    /\ DifferenceCalled
    /\ LET d == Differences(original)
       IN /\ \E i \in 1..Len(original.pixels) :
                FLess(Threshold, d[i][1]) /\ img.pixels[i][1] = One
          /\ \E i \in 1..Len(original.pixels) :
                FLess(Zero, d[i][1]) /\ ~FLess(Threshold, d[i][1])
                /\ img.pixels[i][1] = d[i][1]
          /\ \E i \in 1..Len(original.pixels) :
                FLess(d[i][1], Zero) /\ img.pixels[i][1] = Zero

\* C9: gaussienne_difference of an image of one colour is all zero
C9_ConstantGivesZero ==
    (DifferenceCalled /\ IsConstant(original)) =>
        \A i \in 1..Len(img.pixels) : img.pixels[i] = Vec3(Zero)

----------------------------------------------------------------------------
(* kuwahara *)

\* 0.299f, 0.587f and 0.114f
WeightR == Literal(299, 1000)

WeightG == Literal(587, 1000)

WeightB == Literal(114, 1000)

\* 0.299f * c.r + 0.587f * c.g + 0.114f * c.b
Luminance(c) ==
    FAdd(FAdd(FMul(WeightR, c[1]), FMul(WeightG, c[2])), FMul(WeightB, c[3]))

\* std::numeric_limits<float>::infinity()
Infinity == <<1, 0, 128>>

\* the offsets dx0..dx1 and dy0..dy1 of quadrant q
Offsets(q, radius) ==
    [dx0 |-> IF q = 0 \/ q = 2 THEN -radius ELSE 0,
     dx1 |-> IF q = 0 \/ q = 2 THEN 0 ELSE radius,
     dy0 |-> IF q = 0 \/ q = 1 THEN -radius ELSE 0,
     dy1 |-> IF q = 0 \/ q = 1 THEN 0 ELSE radius]

\* the sample of (x, y) at the n-th step of the loops on dy and dx
Sample(source, x, y, o, n) ==
    LET side == o.dx1 - o.dx0 + 1
        dx == o.dx0 + (n % side)
        dy == o.dy0 + (n \div side)
    IN pixel(source, IClamp(x + dx, 0, source.width - 1),
                     IClamp(y + dy, 0, source.height - 1))

Steps(o) == (o.dx1 - o.dx0 + 1) * (o.dy1 - o.dy0 + 1)

\* the first pair of loops: mean += c; meanL += luminance; ++count
RECURSIVE MeanLoop(_, _, _, _, _)
MeanLoop(source, x, y, o, acc) ==
    IF acc.count >= Steps(o) THEN acc
    ELSE LET c == Sample(source, x, y, o, acc.count)
         IN MeanLoop(source, x, y, o,
                     [mean |-> VAdd(acc.mean, c),
                      meanL |-> FAdd(acc.meanL, Luminance(c)),
                      count |-> acc.count + 1])

\* d * d
Square(d) == FMul(d, d)

\* the second pair of loops: d = l - meanL; var += d * d
RECURSIVE VarLoop(_, _, _, _, _, _)
VarLoop(source, x, y, o, meanL, acc) ==
    IF acc.n >= Steps(o) THEN acc
    ELSE VarLoop(source, x, y, o, meanL,
                 [var |-> FAdd(acc.var,
                               Square(FSub(Luminance(Sample(source, x, y, o, acc.n)),
                                           meanL))),
                  n |-> acc.n + 1])

\* mean /= count; meanL /= count; the second pair of loops; var /= count
QuadrantResult(source, x, y, o, sums, count) ==
    [mean |-> VDiv(sums.mean, count),
     var |-> FDiv(VarLoop(source, x, y, o, FDiv(sums.meanL, count),
                          [var |-> Zero, n |-> 0]).var,
                  count)]

\* static_cast<float>(count) of the count of the first pair of loops
QuadrantMeans(source, x, y, o, sums) ==
    QuadrantResult(source, x, y, o, sums, IntToFloat(sums.count))

\* the mean colour of quadrant q of (x, y) and the variance of its luminance
QuadrantStats(source, radius, x, y, q) ==
    QuadrantMeans(source, x, y, Offsets(q, radius),
                  MeanLoop(source, x, y, Offsets(q, radius),
                           [mean |-> Vec3(Zero), meanL |-> Zero, count |-> 0]))

\* var <= bestVar (mutant: the last of the quadrants of lowest variance wins)
Better_or_equal(var, bestVar) == bestVar = Infinity \/ ~FLess(bestVar, var)

\* var < bestVar
Better(var, bestVar) == bestVar = Infinity \/ FLess(var, bestVar)

\* if (var < bestVar) { bestVar = var; bestMean = mean; }
Keep(best, stats) ==
    IF Better(stats.var, best.bestVar)
    THEN [bestMean |-> stats.mean, bestVar |-> stats.var]
    ELSE best

\* the loop on q, from q on: the best quadrant so far is replaced by a better one
RECURSIVE BestFrom(_, _, _, _, _, _)
BestFrom(source, radius, x, y, q, best) ==
    IF q >= 4 THEN best
    ELSE BestFrom(source, radius, x, y, q + 1,
                  Keep(best, QuadrantStats(source, radius, x, y, q)))

\* the loops on y and x, from (x, y) on: every pixel of image is rewritten
\* from the pixels of source
RECURSIVE KuwaharaFrom(_, _, _, _, _)
KuwaharaFrom(image, source, radius, x, y) ==
    IF y >= image.height THEN image
    ELSE IF x >= image.width THEN KuwaharaFrom(image, source, radius, 0, y + 1)
    ELSE LET best == BestFrom(source, radius, x, y, 0,
                              [bestMean |-> Vec3(Zero), bestVar |-> Infinity])
         IN KuwaharaFrom(SetPixel(image, x, y, best.bestMean), source, radius, x + 1, y)

\* the same loops reading the image they write (mutant: no copy of the image)
RECURSIVE KuwaharaInPlaceFrom(_, _, _, _)
KuwaharaInPlaceFrom(image, radius, x, y) ==
    IF y >= image.height THEN image
    ELSE IF x >= image.width THEN KuwaharaInPlaceFrom(image, radius, 0, y + 1)
    ELSE LET best == BestFrom(image, radius, x, y, 0,
                              [bestMean |-> Vec3(Zero), bestVar |-> Infinity])
         IN KuwaharaInPlaceFrom(SetPixel(image, x, y, best.bestMean), radius, x + 1, y)

kuwahara_aliased(image, radius) ==
    IF radius <= 0 THEN image ELSE KuwaharaInPlaceFrom(image, radius, 0, 0)

kuwahara(image, radius) ==
    IF radius <= 0 THEN image ELSE KuwaharaFrom(image, image, radius, 0, 0)

MaxKuwaharaWidth == 2

MaxKuwaharaHeight == 2

MaxRadius == 2

KuwaharaInputs == Images(MaxKuwaharaWidth, MaxKuwaharaHeight, {Black, Grey, Teal})

Kuwahara == \E radius \in 0..MaxRadius : Call("kuwahara", radius, kuwahara(img, radius))

InitKuwahara == InitWith(KuwaharaInputs)

NextKuwahara == Kuwahara

SpecKuwahara == InitKuwahara /\ [][NextKuwahara]_vars

----------------------------------------------------------------------------
(* the claims about kuwahara *)

KuwaharaCalled == call.op = "kuwahara"

\* in the order of C5
Quadrants == <<"top-left", "top-right", "bottom-left", "bottom-right">>

\* the (radius+1) x (radius+1) samples of the quadrant anchored at (x, y),
\* row after row, coordinates clamped to the image
QuadrantSamples(image, radius, x, y, name) ==
    LET x0 == IF name \in {"top-left", "bottom-left"} THEN x - radius ELSE x
        y0 == IF name \in {"top-left", "top-right"} THEN y - radius ELSE y
    IN [n \in 1..((radius + 1) * (radius + 1)) |->
           pixel(image,
                 IClamp(x0 + ((n - 1) % (radius + 1)), 0, image.width - 1),
                 IClamp(y0 + ((n - 1) \div (radius + 1)), 0, image.height - 1))]

RECURSIVE SumColours(_, _)
SumColours(samples, n) ==
    IF n = 0 THEN Vec3(Zero) ELSE VAdd(SumColours(samples, n - 1), samples[n])

RECURSIVE SumLuminance(_, _)
SumLuminance(samples, n) ==
    IF n = 0 THEN Zero ELSE FAdd(SumLuminance(samples, n - 1), Luminance(samples[n]))

RECURSIVE SumSquares(_, _, _)
SumSquares(samples, meanL, n) ==
    IF n = 0 THEN Zero
    ELSE FAdd(SumSquares(samples, meanL, n - 1),
              Square(FSub(Luminance(samples[n]), meanL)))

MeanColour(samples) == VDiv(SumColours(samples, Len(samples)), IntToFloat(Len(samples)))

LuminanceVariance(samples) ==
    LET meanL == FDiv(SumLuminance(samples, Len(samples)), IntToFloat(Len(samples)))
    IN FDiv(SumSquares(samples, meanL, Len(samples)), IntToFloat(Len(samples)))

\* the variance of the four quadrants of (x, y), in the order of Quadrants
Variances(image, radius, x, y) ==
    [q \in 1..4 |-> LuminanceVariance(QuadrantSamples(image, radius, x, y, Quadrants[q]))]

\* the first of the quadrants of lowest variance
Lowest(var) ==
    CHOOSE q \in 1..4 :
        /\ \A p \in 1..4 : ~FLess(var[p], var[q])
        /\ \A p \in 1..(q - 1) : FLess(var[q], var[p])

\* C5: for radius >= 1 kuwahara replaces every pixel by the mean colour of
\* the quadrant of lowest luminance variance, read from the image as it was
\* before the call, the first in the order top-left, top-right, bottom-left,
\* bottom-right when several share the lowest variance
C5_LowestVarianceQuadrant ==
    (KuwaharaCalled /\ call.arg >= 1) =>
        \A x \in 0..(original.width - 1), y \in 0..(original.height - 1) :
            LET var == Variances(original, call.arg, x, y)
            IN pixel(img, x, y) =
                   MeanColour(QuadrantSamples(original, call.arg, x, y,
                                              Quadrants[Lowest(var)]))

\* a pixel where two quadrants of different mean colours share the lowest
\* variance, and the first of them gave the pixel
C5_WitnessTie ==
    /\ KuwaharaCalled
    /\ call.arg >= 1
    /\ \E x \in 0..(original.width - 1), y \in 0..(original.height - 1) :
          LET var == Variances(original, call.arg, x, y)
              first == Lowest(var)
          IN \E q \in (first + 1)..4 :
                /\ var[q] = var[first]
                /\ MeanColour(QuadrantSamples(original, call.arg, x, y, Quadrants[q]))
                      # MeanColour(QuadrantSamples(original, call.arg, x, y, Quadrants[first]))
                /\ pixel(img, x, y) =
                      MeanColour(QuadrantSamples(original, call.arg, x, y, Quadrants[first]))

\* a pixel whose quadrant of lowest variance is not the first one, in an
\* image whose earlier pixels the call has changed
C5_WitnessSnapshot ==
    /\ KuwaharaCalled
    /\ call.arg >= 1
    /\ img # kuwahara_aliased(original, call.arg)
    /\ \E x \in 0..(original.width - 1), y \in 0..(original.height - 1) :
          Lowest(Variances(original, call.arg, x, y)) # 1

\* C10: for radius >= 1 kuwahara leaves an image of one colour as it was
C10_KuwaharaKeepsConstant ==
    (KuwaharaCalled /\ call.arg >= 1 /\ IsConstant(original)) => img = original

----------------------------------------------------------------------------
(* brightness and dithering *)

\* the result of std::sqrt of a negative value
NaN == <<0, 0, 129>>

\* the i-th pair of bits, from the top, of the 54-bit radicand mant * 2^28
SqrtPair(mant, i) == IF i <= 12 THEN (mant \div 4^(12 - i)) % 4 ELSE 0

\* one digit of the square root: the root gains a bit, set when the
\* remainder holds the trial subtrahend
SqrtDigit(root, rem) ==
    IF rem >= root * 4 + 1
    THEN [root |-> root * 2 + 1, rem |-> rem - (root * 4 + 1)]
    ELSE [root |-> root * 2, rem |-> rem]

\* the integer square root of mant * 2^28 and its remainder, digit by digit
RECURSIVE SqrtLoop(_, _, _)
SqrtLoop(mant, i, st) ==
    IF i > 26 THEN st
    ELSE SqrtLoop(mant, i + 1, SqrtDigit(st.root, st.rem * 4 + SqrtPair(mant, i)))

\* the square root of mant * 2^e, e even, rounded once
SqrtEven(mant, e, st) == RoundPack(1, Jam(st.root, st.rem # 0), e \div 2 - 14)

\* std::sqrt on floats
FSqrt(a) ==
    IF a[1] = 0 THEN Zero
    ELSE IF a[1] < 0 THEN NaN
    ELSE IF a[3] % 2 = 0
         THEN SqrtEven(a[2], a[3], SqrtLoop(a[2], 0, [root |-> 0, rem |-> 0]))
         ELSE SqrtEven(a[2] * 2, a[3] - 1, SqrtLoop(a[2] * 2, 0, [root |-> 0, rem |-> 0]))

Brightness == {"Darker", "Brighter"}

\* the body of the loop of brightness on the pixel colors
Brightened(colors, mode) ==
    IF mode = "Darker"
    THEN <<FMul(colors[1], colors[1]), FMul(colors[2], colors[2]),
           FMul(colors[3], colors[3])>>
    ELSE IF mode = "Brighter"
    THEN <<FSqrt(colors[1]), FSqrt(colors[2]), FSqrt(colors[3])>>
    ELSE colors

brightness(image, mode) ==
    [image EXCEPT !.pixels = [i \in 1..Len(image.pixels) |->
                                 Brightened(image.pixels[i], mode)]]

bayer ==
    << <<0, 8, 2, 10>>, <<12, 4, 14, 6>>, <<3, 11, 1, 9>>, <<15, 7, 13, 5>> >>

\* (bayer[y % 4][x % 4] + 0.5f) / 16.f
BayerThreshold(x, y) ==
    FDiv(FAdd(IntToFloat(bayer[(y % 4) + 1][(x % 4) + 1]), Literal(1, 2)),
         IntToFloat(16))

dither_channel(value, x, y) ==
    IF FLess(BayerThreshold(x, y), FClamp(value, Zero, One)) THEN One ELSE Zero

\* the body of the loops of dithering on the pixel (x, y) of colour colorVec
Dithered(colorVec, x, y, color) ==
    IF color
    THEN <<dither_channel(colorVec[1], x, y), dither_channel(colorVec[2], x, y),
           dither_channel(colorVec[3], x, y)>>
    ELSE Vec3(dither_channel(Luminance(colorVec), x, y))

dithering(image, color) ==
    [image EXCEPT !.pixels = [i \in 1..Len(image.pixels) |->
                                 Dithered(image.pixels[i], (i - 1) % image.width,
                                          (i - 1) \div image.width, color)]]

MaxClampWidth == 3

MaxClampHeight == 2

\* channel values above 1 and below 0, as a sharpening convolution leaves
Overflowed == Vec3(IntToFloat(4))

Underflowed == Vec3(IntToFloat(-1))

ClampInputs ==
    Images(MaxClampWidth, MaxClampHeight, {Black, White, Grey, Overflowed, Underflowed})

BrightnessCall == \E mode \in Brightness : Call("brightness", mode, brightness(img, mode))

Dithering == \E color \in BOOLEAN : Call("dithering", color, dithering(img, color))

InitClamp == InitWith(ClampInputs)

NextClamp == BrightnessCall \/ Dithering \/ GaussienneDifference

SpecClamp == InitClamp /\ [][NextClamp]_vars

----------------------------------------------------------------------------
(* the claim about the clamped filters *)

\* 0 <= c <= 1
InRange(c) == c # NaN /\ ~FLess(c, Zero) /\ ~FLess(One, c)

AllInRange(image) ==
    \A i \in 1..Len(image.pixels) : \A k \in 1..3 : InRange(image.pixels[i][k])

\* C11: after brightness, dithering or gaussienne_difference every channel
\* of every pixel lies in [0,1], whatever the channels of the input were
C11_ClampedResults ==
    call.op \in {"brightness", "dithering", "gaussienne_difference"} => AllInRange(img)

\* the part of C11 about dithering and gaussienne_difference
C11_DitheringAndDifferenceClamp ==
    call.op \in {"dithering", "gaussienne_difference"} => AllInRange(img)

\* the part of C11 about brightness, for an input that lies in [0,1]
C11_BrightnessKeepsRange ==
    (call.op = "brightness" /\ AllInRange(original)) => AllInRange(img)

\* C12: the fixed-kernel convolution of an image whose channels lie in [0,1]
\* is an image whose channels lie in [0,1]
C12_ConvolutionKeepsRange ==
    (ConvolutionCalled /\ call.arg \in FixedKernels /\ AllInRange(original)) =>
        AllInRange(img)

\* the part of C12 about the kernels whose weights are not negative
C12_IdentityAndBlurKeepRange ==
    (ConvolutionCalled /\ call.arg \in {"Identity", "Blur"} /\ AllInRange(original)) =>
        AllInRange(img)

----------------------------------------------------------------------------
(* differential and its CSV file *)

\* glm::abs on a channel
FAbs(a) == IF a[1] = 0 THEN a ELSE <<1, a[2], a[3]>>

VAbs(a) == <<FAbs(a[1]), FAbs(a[2]), FAbs(a[3])>>

\* pixel_to_diff: the first pixel, then each pixel minus the one before it
pixel_to_diff(image) ==
    [x \in 1..Len(image.pixels) |->
        IF x = 1 THEN image.pixels[1] ELSE VSub(image.pixels[x], image.pixels[x - 1])]

\* the millionths of H * 2^12 + L over 2^j, rounded to nearest, ties to even
MicroRound(H, L, j) ==
    IF j > 39 THEN 0
    ELSE IF j >= 13
    THEN NearestEven(H \div 2^(j - 12),
                     2 * (H % 2^(j - 12)) + (IF L > 0 THEN 1 ELSE 0),
                     2^(j - 12))
    ELSE NearestEven(H * 2^(12 - j) + L \div 2^j, L % 2^j, 2^(j - 1))

\* B spread over the two limbs: A * 2^12 + B = H * 2^12 + L with L < 2^12
MicroLimbs(A, B, j) == MicroRound(A + B \div 4096, B % 4096, j)

\* m * 2^-k in millionths (m * 5^6 / 2^(k - 6)), for a value below 1024
Micro(m, k) == MicroLimbs((m \div 4096) * 15625, (m % 4096) * 15625, k - 6)

\* operator<< of a float under std::fixed and std::setprecision(6): the sign
\* and the digits, as a count of millionths
Fixed6(c) == IF c = Zero THEN <<1, 0>> ELSE <<c[1], Micro(c[2], -c[3])>>

\* file << color.r << "," << color.g << "," << color.b << "\n"
CsvRow(color) == <<Fixed6(color[1]), Fixed6(color[2]), Fixed6(color[3])>>

Header == "R,G,B"

OpenError == "Erreur : impossible d'ouvrir le fichier"

Saved == "Data saved in"

\* the header is written before the stream is tested (mutant)
save_differential_data_in_csv_untested(out, data, opens) ==
    IF ~opens THEN [out EXCEPT !.csv = <<Header>>, !.cerr = Append(@, OpenError)]
    ELSE [out EXCEPT !.csv = <<Header>> \o [i \in 1..Len(data) |-> CsvRow(data[i])],
                     !.cout = Append(@, Saved)]

\* opens: whether std::ofstream file(filename) opened the file
save_differential_data_in_csv(out, data, opens) ==
    IF ~opens THEN [out EXCEPT !.cerr = Append(@, OpenError)]
    ELSE [out EXCEPT !.csv = <<Header>> \o [i \in 1..Len(data) |-> CsvRow(data[i])],
                     !.cout = Append(@, Saved)]

\* differential_image: base - glm::abs(differential[y * width + x])
differential_image(image, diff) ==
    [image EXCEPT !.pixels = [i \in 1..Len(image.pixels) |->
                                 VSub(Vec3(One), VAbs(diff[i]))]]

DifferentialInputs == Images(MaxWidth, MaxHeight, {Black, White, Grey})

\* differential(img, save_csv, csv_filename)
Differential ==
    \E save_csv \in BOOLEAN, opens \in BOOLEAN :
        /\ call = NoCall
        /\ img' = differential_image(img, pixel_to_diff(img))
        /\ original' = img
        /\ call' = [op |-> "differential",
                    arg |-> [save_csv |-> save_csv, opens |-> opens]]
        /\ output' = IF save_csv
                     THEN save_differential_data_in_csv(output, pixel_to_diff(img), opens)
                     ELSE output
        /\ UNCHANGED frame

InitDifferential == InitWith(DifferentialInputs)

NextDifferential == Differential

SpecDifferential == InitDifferential /\ [][NextDifferential]_vars

----------------------------------------------------------------------------
(* the claims about differential *)

DifferentialCalled == call.op = "differential"

\* the difference of the pixel of flat index i (from 1) and the one before it
DiffAt(image, i) ==
    IF i = 1 THEN image.pixels[1] ELSE VSub(image.pixels[i], image.pixels[i - 1])

\* the differential image: 1 - |difference|, channel by channel
IsDifferentialOf(result, source) ==
    /\ SameSize(result, source)
    /\ \A i \in 1..Len(source.pixels) :
          result.pixels[i] = VSub(Vec3(One), VAbs(DiffAt(source, i)))

\* C13: when the CSV file cannot be opened the failure is reported on
\* std::cerr and nothing is written, and img is still replaced by the
\* differential image; when it opens, the file is the header and one row per
\* pixel in flat pixel order
C13_CsvWriter ==
    (DifferentialCalled /\ call.arg.save_csv) =>
        /\ IsDifferentialOf(img, original)
        /\ ~call.arg.opens =>
              /\ output.csv = NoFile
              /\ output.cerr = <<OpenError>>
              /\ output.cout = <<>>
        /\ call.arg.opens =>
              /\ Len(output.csv) = 1 + original.width * original.height
              /\ output.csv[1] = Header
              /\ \A i \in 1..Len(original.pixels) :
                    output.csv[i + 1] = CsvRow(DiffAt(original, i))
              /\ output.cerr = <<>>

\* the file could not be opened, and img has been replaced
C13_Witness ==
    /\ DifferentialCalled
    /\ call.arg.save_csv
    /\ ~call.arg.opens
    /\ output.cerr # <<>>
    /\ Len(original.pixels) > 1
    /\ img # original

\* the file opened and holds rows of different values
C13_WitnessOpens ==
    /\ DifferentialCalled
    /\ call.arg.save_csv
    /\ call.arg.opens
    /\ Len(output.csv) > 2
    /\ output.csv[2] # output.csv[3]

\* C14: differential leaves the first pixel as it was
C14_FirstPixelUnchanged ==
    DifferentialCalled => pixel(img, 0, 0) = pixel(original, 0, 0)

----------------------------------------------------------------------------
(* mosaic *)

\* the literal 5 of width*5 and height*5
Repeats == 5

\* mosaic_image.pixel(x, y) = img.pixel(x % width, y % height) for every
\* pixel of the image of width*5 x height*5; copies is not read
mosaic(image, copies) ==
    [width |-> image.width * Repeats,
     height |-> image.height * Repeats,
     pixels |-> [i \in 1..(image.width * Repeats * image.height * Repeats) |->
                    pixel(image,
                          ((i - 1) % (image.width * Repeats)) % image.width,
                          ((i - 1) \div (image.width * Repeats)) % image.height)]]

MaxMosaicWidth == 2

MaxMosaicHeight == 2

MaxCopies == 5

MosaicInputs == Images(MaxMosaicWidth, MaxMosaicHeight, {Black, White, Grey})

Mosaic == \E copies \in 1..MaxCopies : Call("mosaic", copies, mosaic(img, copies))

InitMosaic == InitWith(MosaicInputs)

NextMosaic == Mosaic

SpecMosaic == InitMosaic /\ [][NextMosaic]_vars

\* the image made of copies x copies repetitions of source
IsMosaicOf(result, source, copies) ==
    /\ result.width = source.width * copies
    /\ result.height = source.height * copies
    /\ Len(result.pixels) = result.width * result.height
    /\ \A x \in 0..(result.width - 1), y \in 0..(result.height - 1) :
          pixel(result, x, y) = pixel(source, x % source.width, y % source.height)

\* C15: for copies >= 1, mosaic(img, copies) replaces img by copies x copies
\* repetitions of it
C15_MosaicRepeats ==
    (call.op = "mosaic" /\ call.arg >= 1) => IsMosaicOf(img, original, call.arg)

\* the part of C15 about the default value of copies
C15_FiveRepeats ==
    (call.op = "mosaic" /\ call.arg = Repeats) => IsMosaicOf(img, original, Repeats)

----------------------------------------------------------------------------
(* mirror *)

Mirror == {"Horizontal", "Vertical", "Both"}

\* std::swap(image.pixel(x1, y1), image.pixel(x2, y2))
Swap(image, x1, y1, x2, y2) ==
    SetPixel(SetPixel(image, x1, y1, pixel(image, x2, y2)), x2, y2, pixel(image, x1, y1))

\* the body of the loops of mirror at (x, y)
MirrorSwap(image, direction, x, y) ==
    IF direction = "Horizontal" THEN Swap(image, x, y, image.width - 1 - x, y)
    ELSE IF direction = "Vertical" THEN Swap(image, x, y, x, image.height - 1 - y)
    ELSE IF direction = "Both"
    THEN Swap(image, x, y, image.width - 1 - x, image.height - 1 - y)
    ELSE image

\* the loops on y and on x < width / 2, from (x, y) on
RECURSIVE MirrorFrom(_, _, _, _)
MirrorFrom(image, direction, x, y) ==
    IF y >= image.height THEN image
    ELSE IF x >= image.width \div 2 THEN MirrorFrom(image, direction, 0, y + 1)
    ELSE MirrorFrom(MirrorSwap(image, direction, x, y), direction, x + 1, y)

mirror(image, direction) == MirrorFrom(image, direction, 0, 0)

MaxMirrorWidth == 3

MaxMirrorHeight == 3

MirrorInputs == Images(MaxMirrorWidth, MaxMirrorHeight, {Black, White, Grey})

MirrorCall == \E direction \in Mirror : Call("mirror", direction, mirror(img, direction))

InitMirror == InitWith(MirrorInputs)

NextMirror == MirrorCall

SpecMirror == InitMirror /\ [][NextMirror]_vars

\* C17: mirror(img, Mirror::Vertical) flips the image top to bottom
C17_VerticalFlips ==
    (call.op = "mirror" /\ call.arg = "Vertical") =>
        /\ SameSize(img, original)
        /\ \A x \in 0..(original.width - 1), y \in 0..(original.height - 1) :
              pixel(img, x, y) = pixel(original, x, original.height - 1 - y)

\* the part of C17 about Mirror::Horizontal
C17_HorizontalFlips ==
    (call.op = "mirror" /\ call.arg = "Horizontal") =>
        /\ SameSize(img, original)
        /\ \A x \in 0..(original.width - 1), y \in 0..(original.height - 1) :
              pixel(img, x, y) = pixel(original, original.width - 1 - x, y)

\* what Mirror::Vertical does: every pair of pixels is swapped twice
C17_VerticalKeepsImage ==
    (call.op = "mirror" /\ call.arg = "Vertical") => img = original

----------------------------------------------------------------------------
(* blur_convolution step by step: one step writes one pixel of a buffer *)

\* an image that is not constructed yet
NoImage == [width |-> 0, height |-> 0, pixels |-> <<>>]

\* the coordinates of the pixels of image
Coordinates(image) == (0..(image.width - 1)) \X (0..(image.height - 1))

\* the running sum of the horizontal pass at (x, y): the first window at
\* x = 0, then the sum at x - 1 less the pixel that leaves, plus the one
\* that enters
SumH(image, size, x, y, sum) ==
    IF x = 0
    THEN FirstSumH(image, y, -(size \div 2), -(size \div 2) + size, Vec3(Zero))
    ELSE VAdd(VSub(sum, pixel(image, IClamp(x - size \div 2 - 1, 0, image.width - 1), y)),
              pixel(image, IClamp(x - size \div 2 + size - 1, 0, image.width - 1), y))

\* the pixels that SumH reads
ReadsH(image, size, x, y) ==
    IF x = 0
    THEN {<<IClamp(i, 0, image.width - 1), y>> :
             i \in (-(size \div 2))..(-(size \div 2) + size - 1)}
    ELSE {<<IClamp(x - size \div 2 - 1, 0, image.width - 1), y>>,
          <<IClamp(x - size \div 2 + size - 1, 0, image.width - 1), y>>}

\* the running sum of the vertical pass at (x, y)
SumV(temp, size, x, y, sum) ==
    IF y = 0
    THEN FirstSumV(temp, x, -(size \div 2), -(size \div 2) + size, Vec3(Zero))
    ELSE VAdd(VSub(sum, pixel(temp, x, IClamp(y - size \div 2 - 1, 0, temp.height - 1))),
              pixel(temp, x, IClamp(y - size \div 2 + size - 1, 0, temp.height - 1)))

\* the pixels that SumV reads
ReadsV(temp, size, x, y) ==
    IF y = 0
    THEN {<<x, IClamp(j, 0, temp.height - 1)>> :
             j \in (-(size \div 2))..(-(size \div 2) + size - 1)}
    ELSE {<<x, IClamp(y - size \div 2 - 1, 0, temp.height - 1)>>,
          <<x, IClamp(y - size \div 2 + size - 1, 0, temp.height - 1)>>}

\* the pass ends one pixel early (mutant: x < w - 1 on the last row)
HorizontalNext_early(x, y, w, h) ==
    IF x + 1 < w /\ ~(y + 1 = h /\ x + 2 = w) THEN [pc |-> "horizontal", x |-> x + 1, y |-> y]
    ELSE IF y + 1 < h THEN [pc |-> "horizontal", x |-> 0, y |-> y + 1]
    ELSE [pc |-> "vertical", x |-> 0, y |-> 0]

\* ++x, then ++y, then the vertical pass: where the horizontal pass goes
\* after the pixel (x, y)
HorizontalNext(x, y, w, h) ==
    IF x + 1 < w THEN [pc |-> "horizontal", x |-> x + 1, y |-> y]
    ELSE IF y + 1 < h THEN [pc |-> "horizontal", x |-> 0, y |-> y + 1]
    ELSE [pc |-> "vertical", x |-> 0, y |-> 0]

\* ++y, then ++x, then img = std::move(out)
VerticalNext(x, y, w, h) ==
    IF y + 1 < h THEN [pc |-> "vertical", x |-> x, y |-> y + 1]
    ELSE IF x + 1 < w THEN [pc |-> "vertical", x |-> x + 1, y |-> 0]
    ELSE [pc |-> "replace", x |-> 0, y |-> 0]

\* the frame f at the place next
MovedTo(f, next) == [f EXCEPT !.pc = next.pc, !.x = next.x, !.y = next.y]

\* the call: the early return, or temp is constructed and the horizontal
\* pass starts
BlurStart ==
    \E size \in 1..MaxSize :
        /\ call = NoCall
        /\ frame = NoFrame
        /\ call' = [op |-> "blur_convolution steps", arg |-> size]
        /\ original' = img
        /\ frame' = IF size <= 1 THEN [pc |-> "done"]
                    ELSE [pc |-> "horizontal", size |-> size, x |-> 0, y |-> 0,
                          sum |-> Vec3(Zero),
                          temp |-> BlankImage(img.width, img.height),
                          out |-> NoImage,
                          reads |-> [buffer |-> "none", pixels |-> {}],
                          tempWritten |-> {}, outWritten |-> {}]
        /\ UNCHANGED <<img, output>>

\* temp.pixel(x, y) = sum / size, sum being brought to (x, y) from img
HorizontalStep ==
    /\ frame.pc = "horizontal"
    /\ frame' = [MovedTo(frame, HorizontalNext(frame.x, frame.y, img.width, img.height))
                    EXCEPT !.sum = SumH(img, frame.size, frame.x, frame.y, frame.sum),
                           !.temp = SetPixel(frame.temp, frame.x, frame.y,
                                             VDiv(SumH(img, frame.size, frame.x, frame.y,
                                                       frame.sum),
                                                  IntToFloat(frame.size))),
                           !.out = IF HorizontalNext(frame.x, frame.y, img.width,
                                                     img.height).pc = "vertical"
                                   THEN BlankImage(img.width, img.height) ELSE @,
                           !.reads = [buffer |-> "img",
                                      pixels |-> ReadsH(img, frame.size, frame.x, frame.y)],
                           !.tempWritten = @ \cup {<<frame.x, frame.y>>}]
    /\ UNCHANGED <<img, original, call, output>>

\* out.pixel(x, y) = sum / size, sum being brought to (x, y) from temp
VerticalStep ==
    /\ frame.pc = "vertical"
    /\ frame' = [MovedTo(frame, VerticalNext(frame.x, frame.y, img.width, img.height))
                    EXCEPT !.sum = SumV(frame.temp, frame.size, frame.x, frame.y, frame.sum),
                           !.out = SetPixel(frame.out, frame.x, frame.y,
                                            VDiv(SumV(frame.temp, frame.size, frame.x,
                                                      frame.y, frame.sum),
                                                 IntToFloat(frame.size))),
                           !.reads = [buffer |-> "temp",
                                      pixels |-> ReadsV(frame.temp, frame.size, frame.x,
                                                        frame.y)],
                           !.outWritten = @ \cup {<<frame.x, frame.y>>}]
    /\ UNCHANGED <<img, original, call, output>>

\* img = std::move(out), and the function returns
Replace ==
    /\ frame.pc = "replace"
    /\ img' = frame.out
    /\ frame' = [pc |-> "done"]
    /\ UNCHANGED <<original, call, output>>

MaxStepWidth == 3

MaxStepHeight == 2

BlurStepInputs == Images(MaxStepWidth, MaxStepHeight, {Black, White, Grey})

InitBlurSteps == InitWith(BlurStepInputs)

NextBlurSteps == BlurStart \/ HorizontalStep \/ VerticalStep \/ Replace

SpecBlurSteps == InitBlurSteps /\ [][NextBlurSteps]_vars

----------------------------------------------------------------------------
(* the claim about the steps of blur_convolution *)

\* a and b are the same but for the pixel (x, y)
SameBut(a, b, x, y) ==
    /\ SameSize(a, b)
    /\ \A c \in Coordinates(a) : c # <<x, y>> => pixel(a, c[1], c[2]) = pixel(b, c[1], c[2])

\* C16: the horizontal pass reads only the source image and writes every
\* pixel of the intermediate buffer before the vertical pass starts; the
\* vertical pass reads only the intermediate buffer and writes only the
\* output buffer; the caller's image is written by the final replacement
\* only, once every pixel of the output buffer is written
C16_BlurStepsOrdered ==
    [][/\ frame.pc = "horizontal" =>
             /\ frame'.reads.buffer = "img"
             /\ frame'.reads.pixels \subseteq Coordinates(img)
             /\ SameBut(frame'.temp, frame.temp, frame.x, frame.y)
             /\ frame.outWritten = {}
             /\ img' = img
       /\ frame.pc = "vertical" =>
             /\ frame.tempWritten = Coordinates(img)
             /\ frame'.reads.buffer = "temp"
             /\ frame'.reads.pixels \subseteq Coordinates(frame.temp)
             /\ frame'.temp = frame.temp
             /\ SameBut(frame'.out, frame.out, frame.x, frame.y)
             /\ img' = img
       /\ frame.pc = "replace" =>
             /\ frame.outWritten = Coordinates(img)
             /\ img = original
             /\ img' = frame.out
       /\ frame.pc \in {"none", "done"} => img' = img]_vars

\* a call with k >= 2 has gone through the two passes and has replaced a
\* caller's image of several pixels by a different one
C16_Witness ==
    /\ call.op = "blur_convolution steps"
    /\ call.arg >= 2
    /\ frame.pc = "done"
    /\ Len(original.pixels) > 1
    /\ img # original

\* step by step, the call gives the image that blur_convolution gives
StepsGiveBlur ==
    (call.op = "blur_convolution steps" /\ frame.pc = "done") =>
        img = blur_convolution(original, call.arg)

----------------------------------------------------------------------------
(* animation: the loop that saves one frame per value of x *)

\* const int width = 500 and const int height = 500
FrameWidth == 500

FrameHeight == 500

MaxSeconds == 3

MaxIps == 200

Seconds == 1..MaxSeconds

\* one image per second, the default value, and the bound
Ips == {1, 25, MaxIps}

CenterYs == {-1, 100}

\* the file output/animation/frame_<x>.png: the white disk of centre
\* (x, centerY) on a black image of 500 x 500
FrameFile(x, centerY) == [name |-> x, disk |-> <<x, centerY>>]

\* x += width / (seconds * ips)
Advance(x, seconds, ips) == x + FrameWidth \div (seconds * ips)

\* animation(centerY, seconds, ips): x = 0
AnimationStart ==
    \E centerY \in CenterYs, seconds \in Seconds, ips \in Ips :
        /\ call = NoCall
        /\ frame = NoFrame
        /\ call' = [op |-> "animation",
                    arg |-> [centerY |-> centerY, seconds |-> seconds, ips |-> ips]]
        /\ frame' = [pc |-> "test", x |-> 0,
                     centerY |-> IF centerY = -1 THEN FrameHeight \div 2 ELSE centerY,
                     seconds |-> seconds, ips |-> ips]
        /\ UNCHANGED <<img, original, output>>

\* x < width
AnimationTest ==
    /\ frame.pc = "test"
    /\ frame' = IF frame.x < FrameWidth THEN [frame EXCEPT !.pc = "body"]
                ELSE [pc |-> "done"]
    /\ UNCHANGED <<img, original, call, output>>

\* the body of the loop and its increment
AnimationBody ==
    /\ frame.pc = "body"
    /\ output' = [output EXCEPT !.saved = @ \cup {FrameFile(frame.x, frame.centerY)}]
    /\ frame' = [frame EXCEPT !.pc = "test",
                              !.x = Advance(frame.x, frame.seconds, frame.ips)]
    /\ UNCHANGED <<img, original, call>>

InitAnimation == InitWith({BlankImage(1, 1)})

NextAnimation == AnimationStart \/ AnimationTest \/ AnimationBody

\* a call that has started goes on running
SpecAnimation ==
    InitAnimation /\ [][NextAnimation]_vars /\ WF_vars(AnimationTest \/ AnimationBody)

\* C18: animation(centerY, seconds, ips) terminates for every seconds >= 1
\* and every ips >= 1
C18_AnimationTerminates ==
    (call.op = "animation" /\ call.arg.seconds >= 1 /\ call.arg.ips >= 1)
        ~> (frame.pc = "done")

\* the part of C18 about the calls whose step width / (seconds * ips) is
\* not zero
StepPositive == call.op = "animation" /\ FrameWidth \div (call.arg.seconds * call.arg.ips) > 0

C18_TerminatesWhenStepPositive == StepPositive ~> (frame.pc = "done")

\* the loop runs with a step of zero
C18_ZeroStep ==
    /\ call.op = "animation"
    /\ frame.pc = "test"
    /\ frame.x = 0
    /\ output.saved # {}

----------------------------------------------------------------------------
(* pixelSort: the loop on pixelIndex, and std::sort on the chosen segments *)

\* a.r + a.g + a.b
SortKey(a) == FAdd(FAdd(a[1], a[2]), a[3])

\* the number of the elements of seq that are equal to p
RECURSIVE Count(_, _, _)
Count(seq, p, n) ==
    IF n = 0 THEN 0 ELSE Count(seq, p, n - 1) + (IF seq[n] = p THEN 1 ELSE 0)

\* the arrangements of count[p] copies of each p of group
RECURSIVE Arrangements(_, _)
Arrangements(group, count) ==
    IF \A p \in group : count[p] = 0 THEN {<<>>}
    ELSE UNION {{<<p>> \o t : t \in Arrangements(group, [count EXCEPT ![p] = @ - 1])}
                : p \in {q \in group : count[q] > 0}}

\* the concatenations of one sequence of heads and one sequence of tails
Concatenations(heads, tails) == {a \o b : a \in heads, b \in tails}

\* a.r + a.g + a.b for every pixel of pixels: what comp computes of its two
\* arguments at each comparison
SortKeys(pixels) == [p \in {pixels[i] : i \in 1..Len(pixels)} |-> SortKey(p)]

\* the sequences that std::sort can leave for the values, with count copies
\* of each: the values of the lowest key first, in any order among them
RECURSIVE SortedFrom(_, _, _)
SortedFrom(values, count, keys) ==
    IF values = {} THEN {<<>>}
    ELSE Concatenations(
             Arrangements({p \in values : \A q \in values : ~FLess(keys[q], keys[p])},
                          count),
             SortedFrom({p \in values : \E q \in values : FLess(keys[q], keys[p])},
                        count, keys))

\* std::sort(first, last, comp) with comp(a, b) = keys[a] < keys[b]: every
\* ordering of seq that comp accepts
SortOutcomes(seq, keys) ==
    SortedFrom({seq[i] : i \in 1..Len(seq)},
               [p \in {seq[i] : i \in 1..Len(seq)} |-> Count(seq, p, Len(seq))],
               keys)

\* the segment is left as it is (mutant: the sort is lost)
Sorted_kept(pixels, first, last, sorted) == pixels

\* pixels with its elements first+1 .. last replaced by sorted
Sorted(pixels, first, last, sorted) ==
    [i \in 1..Len(pixels) |->
        IF first < i /\ i <= last THEN sorted[i - first] ELSE pixels[i]]

\* random_int(0, 75) and random_int(20, 75), the upper bound being drawn or not
RandomOutcomes == 0..75

MinLength == 20

MaxLength == 75

\* std::min(pixelIndex + randomLength, width * height) for every randomLength
EndIndexes(pixelIndex, size) ==
    {IF pixelIndex + randomLength < size THEN pixelIndex + randomLength ELSE size :
        randomLength \in MinLength..MaxLength}

\* the w x h image whose pixels repeat the sequence colours
Striped(w, h, colours) ==
    [width |-> w, height |-> h,
     pixels |-> [i \in 1..(w * h) |-> colours[((i - 1) % Len(colours)) + 1]]]

Red == Colour(255, 0, 0)

Green == Colour(0, 255, 0)

MaxSortHeight == 11

\* images of one row and images of full height, one or two pixels wide; the
\* last pattern holds two different colours of the same key
SortInputs ==
    {Striped(w, h, colours) :
        w \in {1, 2}, h \in {1, MaxSortHeight},
        colours \in {<<White, Grey, Black>>, <<Black, White>>,
                     <<Red, White, Green, Black, Black, Black, Black, Black, Black, Black,
                       White, Black, White, Black, White, Black, White, Black, White, Black,
                       White, Black, White, Black, White, Black, White, Black, White, Black,
                       White, Black, White, Black, White, Black, White, Black, White, Black>>}}

\* std::vector<glm::vec3> pixels = img.pixels(); int pixelIndex = 0
PixelSortStart ==
    /\ call = NoCall
    /\ frame = NoFrame
    /\ call' = [op |-> "pixelSort", arg |-> 0]
    /\ original' = img
    /\ frame' = [pc |-> "loop", pixelIndex |-> 0, pixels |-> img.pixels,
                 keys |-> SortKeys(img.pixels), segments |-> <<>>]
    /\ UNCHANGED <<img, output>>

\* the frames that a turn with random == 0 can leave: the segment from
\* pixelIndex to endIndex is sorted and pixelIndex = endIndex
SortedFrames(f, size) ==
    UNION {{[f EXCEPT !.pixels = Sorted(@, f.pixelIndex, endIndex, sorted),
                      !.pixelIndex = endIndex,
                      !.segments = Append(@, <<f.pixelIndex, endIndex>>)]
            : sorted \in SortOutcomes(SubSeq(f.pixels, f.pixelIndex + 1, endIndex),
                                       f.keys)}
           : endIndex \in EndIndexes(f.pixelIndex, size)}

\* one turn of the while loop
PixelSortStep ==
    /\ frame.pc = "loop"
    /\ frame.pixelIndex < img.width * img.height
    /\ \E random \in RandomOutcomes :
          frame' \in IF random = 0 THEN SortedFrames(frame, img.width * img.height)
                     ELSE {[frame EXCEPT !.pixelIndex = @ + 1]}
    /\ UNCHANGED <<img, original, call, output>>

\* the loop ends: img.pixels() = pixels
PixelSortEnd ==
    /\ frame.pc = "loop"
    /\ frame.pixelIndex >= img.width * img.height
    /\ img' = [img EXCEPT !.pixels = frame.pixels]
    /\ frame' = [pc |-> "done", segments |-> frame.segments]
    /\ UNCHANGED <<original, call, output>>

InitPixelSort == InitWith(SortInputs)

NextPixelSort == PixelSortStart \/ PixelSortStep \/ PixelSortEnd

\* a call that has started goes on running
SpecPixelSort ==
    InitPixelSort /\ [][NextPixelSort]_vars /\ WF_vars(PixelSortStep \/ PixelSortEnd)

----------------------------------------------------------------------------
(* the claim about pixelSort *)

PixelSortDone == call.op = "pixelSort" /\ frame.pc = "done"

\* the flat indices (from 1) of the segment seg = <<first, last>>
Indices(seg) == (seg[1] + 1)..seg[2]

\* the pixels of a and b are the same, each as many times
SamePixels(a, b) ==
    /\ Len(a) = Len(b)
    /\ \A i \in 1..Len(a) : Count(a, a[i], Len(a)) = Count(b, a[i], Len(b))

\* the result of a call that has returned: the same pixels at other places,
\* moved only inside the segments, each segment in order of r + g + b
PermutedBySegments ==
    PixelSortDone =>
        /\ SameSize(img, original)
        /\ SamePixels(img.pixels, original.pixels)
        /\ \A i \in 1..Len(original.pixels) :
              (\A n \in 1..Len(frame.segments) : i \notin Indices(frame.segments[n])) =>
                  img.pixels[i] = original.pixels[i]
        /\ \A n \in 1..Len(frame.segments) :
              /\ frame.segments[n][2] - frame.segments[n][1] <= MaxLength
              /\ frame.segments[n][2] <= Len(original.pixels)
              /\ \A i, j \in Indices(frame.segments[n]) :
                    i < j => ~FLess(SortKey(img.pixels[j]), SortKey(img.pixels[i]))

\* C19: for every sequence of random outcomes pixelSort terminates, and it
\* only permutes the pixels: same dimensions, same pixels as many times,
\* every pixel outside the chosen segments at its place, every segment (at
\* most 75 flat indices, cut at the end of the image) in non-decreasing
\* order of r + g + b
C19_PixelSortPermutes ==
    /\ []PermutedBySegments
    /\ (call.op = "pixelSort") ~> (frame.pc = "done")

\* a call has returned after sorting a whole segment of 20 pixels or more,
\* which changed the image and left pixels outside the segment
C19_Witness ==
    /\ PixelSortDone
    /\ img # original
    /\ \E n \in 1..Len(frame.segments) :
          /\ frame.segments[n][2] - frame.segments[n][1] >= MinLength
          /\ frame.segments[n][2] < Len(original.pixels)

\* a call has left two pixels of the same key in the other order
C19_WitnessTie ==
    /\ PixelSortDone
    /\ \E i, j \in 1..Len(img.pixels) :
          /\ i < j
          /\ original.pixels[i] = Red /\ original.pixels[j] = Green
          /\ \E k, l \in 1..Len(img.pixels) :
                k < l /\ img.pixels[k] = Green /\ img.pixels[l] = Red

----------------------------------------------------------------------------
(* the four filters together: one call on one input image *)

Init == InitWith(BlurInputs \cup ConvolutionInputs \cup DifferenceInputs \cup KuwaharaInputs)

Next == BlurConvolution \/ Convolution \/ GaussienneDifference \/ Kuwahara

Spec == Init /\ [][Next]_vars

====
